---- MODULE Spec2Model ----
(***************************************************************************)
(* Invitation redemption of the survey application.                        *)
(*                                                                         *)
(* The store is the hosted database: the survey_invitations and            *)
(* survey_responses tables with their row-level-security policies and the  *)
(* increment_invitation_usage function.  The clients are browser sessions  *)
(* running the respondent view (SurveyView) on top of the API helpers      *)
(* validateInvitation / saveResponse / incrementInvitationUsage.  The      *)
(* administrator creates, toggles and deletes invitations and deletes      *)
(* responses.  Every request to the store is one atomic step; the steps of  *)
(* different sessions interleave freely.                                   *)
(***************************************************************************)
EXTENDS Integers, FiniteSets, Sequences, TLC

\* ------------------------------------------------------------------ bounds
NumClients == 2      \* browser sessions
MaxInv == 1          \* invitations ever created (ids are a serial, never reused)
MaxResp == 2         \* response rows ever inserted (ids are a serial)
MaxTime == 2         \* the server clock runs 0..MaxTime
MaxAnswers == 4      \* responses in scope of the aggregates
MaxSubmits == 2      \* saveResponse invocations of one respondent form
MaxQuestionId == 4   \* question rows ever inserted (ids are a serial)
MaxResponseId == 2   \* response rows listed in the Results view (ids are a serial)

\* SQL NULL / JavaScript null for the nullable integer columns.
NULL == -1

Clients == 1..NumClients
InvIds == 1..MaxInv
Surveys == {1, 2}
Times == 0..MaxTime

\* Values an administrator can pass to createInvitation.
MaxUsesChoices == {NULL, 0, 1}
ExpiresChoices == {NULL, 1}

\* The token of invitation i (tokens are unique per row); BogusToken is a
\* syntactically valid token that no row carries.
Token(i) == i
BogusToken == 0
Tokens == {Token(i) : i \in InvIds} \cup {BogusToken}

VARIABLES
  invitations,   \* survey_invitations: id -> row (exists = FALSE: no such row)
  nextInvId,     \* BIGSERIAL of survey_invitations.id
  responses,     \* survey_responses: set of rows
  nextRespId,    \* BIGSERIAL of survey_responses.id
  inserted,      \* history: per invitation, number of response rows ever inserted
  now,           \* NOW() of the database server
  clients,       \* per browser session: position in SurveyView and its state
  session,       \* localStorage 'supabase_session' of the administrator's browser
  mounted,       \* App: the mount effect has run
  authenticated, \* App state
  userIsAdmin,   \* App state
  activeTab,     \* App state
  showAuthModal, \* App state
  adminChecks,   \* isAdmin requests in flight, by the user they ask about
  authTimer,     \* AuthModal: the 500 ms timer before onAuthenticated is pending
  draft,         \* AdminView: the question as composed in the form
  question,      \* survey_questions: the stored question
  answers,       \* ResultsView: the answers of filteredResponses to the question
  questionData,  \* ResultsView: the last result of getQuestionData
  name,          \* SurveyView form state
  countryCode,   \* SurveyView form state
  role,          \* SurveyView form state
  formQuestions, \* SurveyView: the questions of the loaded survey
  formAnswers,   \* SurveyView: answers, by position of the question
  formError,     \* SurveyView: the error banner ('' when none)
  loading,       \* SurveyView: a saveResponse call is in flight
  saveResponseCalls, \* history: number of saveResponse invocations
  survey_questions,  \* survey_questions: set of rows
  nextQuestionId,    \* BIGSERIAL of survey_questions.id
  saving,        \* AdminView: the saveQuestions call and its position
  survey_responses,  \* survey_responses with respondent columns: set of rows
  nextResponseId,    \* BIGSERIAL of survey_responses.id
  loadedResponses,   \* ResultsView state 'responses'
  filterCountry,     \* ResultsView state
  filterRole,        \* ResultsView state
  selectedResponses, \* ResultsView state
  deleting       \* ResultsView: the deleteResponses call and its requests

vars ==
  <<invitations, nextInvId, responses, nextRespId, inserted, now, clients,
    session, mounted, authenticated, userIsAdmin, activeTab, showAuthModal,
    adminChecks, authTimer, draft, question, answers, questionData,
    name, countryCode, role, formQuestions, formAnswers, formError, loading,
    saveResponseCalls, survey_questions, nextQuestionId, saving,
    survey_responses, nextResponseId, loadedResponses, filterCountry,
    filterRole, selectedResponses, deleting>>

app ==
  <<session, mounted, authenticated, userIsAdmin, activeTab, showAuthModal,
    adminChecks, authTimer>>

\* The state behind the aggregates of ResultsView.
results == <<draft, question, answers, questionData>>

form ==
  <<name, countryCode, role, formQuestions, formAnswers, formError, loading,
    saveResponseCalls>>

qstore == <<survey_questions, nextQuestionId, saving>>

review ==
  <<survey_responses, nextResponseId, loadedResponses, filterCountry,
    filterRole, selectedResponses, deleting>>

panels == <<form, qstore, review>>

store == <<invitations, nextInvId, responses, nextRespId, inserted>>

NoRow ==
  [exists |-> FALSE, surveyId |-> NULL, token |-> NULL, maxUses |-> NULL,
   usedCount |-> 0, expiresAt |-> NULL, isActive |-> FALSE]

\* A session that has not mounted the respondent view yet.
NoClient ==
  [pc |-> "unloaded", survey |-> NULL, invite |-> NULL, invitation |-> NULL]

InFlight == {"loading", "posting", "incrementing"}
FormShown == {"form", "submitted", "rejected", "failed"}

\* ---------------------------------------------------- JavaScript values

\* A JavaScript value, as far as the answers and question fields need them:
\* t is its type, n the number, s the string, a the elements of an array of
\* strings.
Num(x) == [t |-> "number", n |-> x, s |-> "", a |-> <<>>]
Str(x) == [t |-> "string", n |-> 0, s |-> x, a |-> <<>>]
Arr(x) == [t |-> "array", n |-> 0, s |-> "", a |-> x]
Bool(x) == [t |-> "boolean", n |-> IF x THEN 1 ELSE 0, s |-> "", a |-> <<>>]
JsNull == [t |-> "null", n |-> 0, s |-> "", a |-> <<>>]
Undefined == [t |-> "undefined", n |-> 0, s |-> "", a |-> <<>>]

\* The accounts of the authentication service; user_profiles flags one of
\* them as administrator.
Users == {"admin", "user"}

ProfileIsAdmin(u) == u = "admin"

\* No item 'supabase_session' in localStorage.
NoSession == [user |-> "", expires_at |-> 0]

\* The lifetime, in ticks of the clock, that the authentication service
\* gives a new session (expires_at of the token answer).
SessionLifetime == 1

Tabs == {"admin", "survey", "results"}

\* No question composed or stored.
NoQuestion ==
  [type |-> "none", options |-> JsNull, scaleMin |-> JsNull,
   scaleMax |-> JsNull, multipleSelect |-> JsNull, percentageMax |-> JsNull]

\* getQuestionData has not run since the data was loaded.
NoData == [done |-> FALSE, data |-> <<>>]

\* The database after the migration and the respondent sessions before their
\* first mount.
InitStore ==
  /\ invitations = [i \in InvIds |-> NoRow]
  /\ nextInvId = 1
  /\ responses = {}
  /\ nextRespId = 1
  /\ inserted = [i \in InvIds |-> 0]
  /\ now = 0
  /\ clients = [c \in Clients |-> NoClient]

\* App as constructed (the useState defaults), before its mount effect; the
\* session store holds whatever an earlier visit left there.
InitApp ==
  /\ session \in {NoSession} \cup
       {[user |-> u, expires_at |-> t] : u \in Users, t \in 1..MaxTime}
  /\ mounted = FALSE
  /\ authenticated = FALSE
  /\ userIsAdmin = FALSE
  /\ activeTab = "survey"
  /\ showAuthModal = FALSE
  /\ adminChecks = {}
  /\ authTimer = FALSE

\* No question and no answers yet.
InitResults ==
  /\ draft = NoQuestion
  /\ question = NoQuestion
  /\ answers = <<>>
  /\ questionData = NoData

\* No saveQuestions call has been made.
NoSave ==
  [pc |-> "idle", surveyId |-> NULL, questions |-> <<>>, sent |-> <<>>,
   before |-> {}]

\* No deleteResponses call has been made.
NoDelete == [pc |-> "idle", ids |-> {}, pending |-> {}, before |-> {}]

\* SurveyView as constructed (the useState defaults), no survey loaded.
InitForm ==
  /\ name = ""
  /\ countryCode = ""
  /\ role = ""
  /\ formQuestions = <<>>
  /\ formAnswers = <<>>
  /\ formError = ""
  /\ loading = FALSE
  /\ saveResponseCalls = 0

\* survey_questions after the migration.
InitQuestions ==
  /\ survey_questions = {}
  /\ nextQuestionId = 1
  /\ saving = NoSave

\* ResultsView as constructed, over an empty survey_responses table.
InitReview ==
  /\ survey_responses = {}
  /\ nextResponseId = 1
  /\ loadedResponses = {}
  /\ filterCountry = "All"
  /\ filterRole = "All"
  /\ selectedResponses = {}
  /\ deleting = NoDelete

Init ==
  /\ InitStore
  /\ InitApp
  /\ session = NoSession
  /\ InitResults
  /\ InitForm
  /\ InitQuestions
  /\ InitReview

\* ------------------------------------------------------- database policies

\* JavaScript truthiness of a nullable number: null and 0 are falsy.
Truthy(x) == x # NULL /\ x # 0

\* RLS on survey_invitations for SELECT: admins see every row, everybody else
\* only active rows that have not expired by the server clock.
SelectPolicy(i, admin) ==
  \/ admin
  \/ /\ invitations[i].isActive
     /\ (invitations[i].expiresAt = NULL \/ invitations[i].expiresAt > now)

\* RLS on surveys for SELECT ("Admins have full access to surveys", "Invited
\* users can read surveys"): the row of survey sid is visible to an admin, and
\* to anybody else while some invitation of that survey is active, not
\* expired and under its limit.
SurveyReadPolicy(sid, admin) ==
  \/ admin
  \/ \E i \in InvIds :
       /\ invitations[i].exists
       /\ invitations[i].surveyId = sid
       /\ invitations[i].isActive
       /\ (invitations[i].expiresAt = NULL \/ invitations[i].expiresAt > now)
       /\ (invitations[i].maxUses = NULL
             \/ invitations[i].usedCount < invitations[i].maxUses)

\* RLS on survey_questions for SELECT ("Invited users can read questions"):
\* the same condition on the invitations of the question's survey.
QuestionReadPolicy(sid, admin) ==
  \/ admin
  \/ \E i \in InvIds :
       /\ invitations[i].exists
       /\ invitations[i].surveyId = sid
       /\ invitations[i].isActive
       /\ (invitations[i].expiresAt = NULL \/ invitations[i].expiresAt > now)
       /\ (invitations[i].maxUses = NULL
             \/ invitations[i].usedCount < invitations[i].maxUses)

\* Mutant of InsertPolicy: the policy forgets the is_active condition.
InsertPolicy_IgnoresActive(inv, sid) ==
  /\ inv # NULL
  /\ inv \in InvIds
  /\ invitations[inv].exists
  /\ invitations[inv].surveyId = sid
  /\ (invitations[inv].expiresAt = NULL \/ invitations[inv].expiresAt > now)
  /\ (invitations[inv].maxUses = NULL
        \/ invitations[inv].usedCount < invitations[inv].maxUses)

\* RLS on survey_responses for INSERT (WITH CHECK), evaluated by the server
\* for the row (survey_id = sid, invitation_id = inv) at server time.
InsertPolicy(inv, sid) ==
  /\ inv # NULL
  /\ inv \in InvIds
  /\ invitations[inv].exists
  /\ invitations[inv].surveyId = sid
  /\ invitations[inv].isActive
  /\ (invitations[inv].expiresAt = NULL \/ invitations[inv].expiresAt > now)
  /\ (invitations[inv].maxUses = NULL
        \/ invitations[inv].usedCount < invitations[inv].maxUses)

\* increment_invitation_usage: unconditional UPDATE of the row with that id
\* (no row: nothing is updated), returns VOID.
increment_invitation_usage(inv) ==
  IF inv \in InvIds /\ invitations[inv].exists
  THEN [invitations EXCEPT ![inv].usedCount = @ + 1]
  ELSE invitations

\* ------------------------------------------------------------- API helpers

\* Mutant of validateInvitation: the query forgets is_active=eq.true.
validateInvitation_NoActiveFilter(tok, sid, cnow, admin) ==
  LET data == {i \in InvIds :
                 /\ invitations[i].exists
                 /\ SelectPolicy(i, admin)
                 /\ invitations[i].token = tok
                 /\ invitations[i].surveyId = sid}
  IN IF data = {} THEN NULL
     ELSE LET i == CHOOSE j \in data : TRUE
              invitation == invitations[i]
          IN IF invitation.expiresAt # NULL /\ invitation.expiresAt < cnow
               THEN NULL
             ELSE IF Truthy(invitation.maxUses)
                      /\ invitation.usedCount >= invitation.maxUses
               THEN NULL
             ELSE i

\* Mutant of validateInvitation: the query looks the token up without
\* survey_id=eq.surveyId.
validateInvitation_TokenOnly(tok, sid, cnow, admin) ==
  LET data == {i \in InvIds :
                 /\ invitations[i].exists
                 /\ SelectPolicy(i, admin)
                 /\ invitations[i].token = tok
                 /\ invitations[i].isActive}
  IN IF data = {} THEN NULL
     ELSE LET i == CHOOSE j \in data : TRUE
              invitation == invitations[i]
          IN IF invitation.expiresAt # NULL /\ invitation.expiresAt < cnow
               THEN NULL
             ELSE IF Truthy(invitation.maxUses)
                      /\ invitation.usedCount >= invitation.maxUses
               THEN NULL
             ELSE i

\* validateInvitation(token, surveyId): the GET on survey_invitations filtered
\* by token, survey_id and is_active (and by the SELECT policy), then the
\* expiry check against the client's clock cnow and the usage check.  Returns
\* the invitation id or NULL.
validateInvitation(tok, sid, cnow, admin) ==
  LET data == {i \in InvIds :
                 /\ invitations[i].exists
                 /\ SelectPolicy(i, admin)
                 /\ invitations[i].token = tok
                 /\ invitations[i].surveyId = sid
                 /\ invitations[i].isActive}
  IN IF data = {} THEN NULL
     ELSE LET i == CHOOSE j \in data : TRUE
              invitation == invitations[i]
          IN IF invitation.expiresAt # NULL /\ invitation.expiresAt < cnow
               THEN NULL
             ELSE IF Truthy(invitation.maxUses)
                      /\ invitation.usedCount >= invitation.maxUses
               THEN NULL
             ELSE i

\* ---------------------------------------------------------- respondent view

\* Mutant of MountWithoutInvitation: the form is shown although a URL
\* parameter is missing.
MountWithoutInvitation_ShowsForm(c, sid, tok) ==
  /\ clients[c].pc \notin InFlight
  /\ sid = NULL \/ tok = NULL
  /\ clients' = [clients EXCEPT ![c] =
       [pc |-> "form", survey |-> sid, invite |-> tok, invitation |-> NULL]]
  /\ UNCHANGED <<store, now, app, results, panels>>

\* SurveyView mount (useEffect) with a URL that lacks ?survey= or &invite=:
\* the "invitation required" state, no request is made.
MountWithoutInvitation(c, sid, tok) ==
  /\ clients[c].pc \notin InFlight
  /\ sid = NULL \/ tok = NULL
  /\ clients' = [clients EXCEPT ![c] =
       [pc |-> "invite_required", survey |-> sid, invite |-> tok,
        invitation |-> NULL]]
  /\ UNCHANGED <<store, now, app, results, panels>>

\* Mutant of Mount: a successful validation consumes a use.
Mount_ConsumesUse(c, sid, tok) ==
  /\ clients[c].pc \notin InFlight
  /\ sid # NULL /\ tok # NULL
  /\ \E inv \in {validateInvitation(tok, sid, cnow, admin) :
                   cnow \in Times, admin \in BOOLEAN} :
       /\ clients' = [clients EXCEPT ![c] =
            [pc |-> IF inv = NULL THEN "invalid_link" ELSE "loading",
             survey |-> sid, invite |-> tok, invitation |-> inv]]
       /\ invitations' = IF inv = NULL \/ invitations[inv].usedCount >= MaxResp
                         THEN invitations
                         ELSE increment_invitation_usage(inv)
  /\ UNCHANGED <<nextInvId, responses, nextRespId, inserted, now, app, results, panels>>

\* SurveyView mount (useEffect) with ?survey=sid&invite=tok:
\* validateAndLoadSurvey up to the answer inv of validateInvitation, called by
\* an anonymous or an administrator's session whose clock reads any cnow.  A
\* null answer ends in the error state, an invitation is kept and the survey
\* is loaded next.
Mount(c, sid, tok) ==
  /\ clients[c].pc \notin InFlight
  /\ sid # NULL /\ tok # NULL
  /\ \E inv \in {validateInvitation(tok, sid, cnow, admin) :
                   cnow \in Times, admin \in BOOLEAN} :
       clients' = [clients EXCEPT ![c] =
         [pc |-> IF inv = NULL THEN "invalid_link" ELSE "loading",
          survey |-> sid, invite |-> tok, invitation |-> inv]]
  /\ UNCHANGED <<store, now, app, results, panels>>

\* The same mount when the request of validateInvitation fails (the answer is
\* not ok, or fetch throws): validateInvitation returns null.
MountRequestFails(c, sid, tok) ==
  /\ clients[c].pc \notin InFlight
  /\ sid # NULL /\ tok # NULL
  /\ clients' = [clients EXCEPT ![c] =
       [pc |-> "invalid_link", survey |-> sid, invite |-> tok,
        invitation |-> NULL]]
  /\ UNCHANGED <<store, now, app, results, panels>>

\* validateAndLoadSurvey, second half: loadSurvey and loadQuestions answer;
\* loaded is whether they produced an active survey with questions to show.
LoadSurvey(c, loaded) ==
  /\ clients[c].pc = "loading"
  /\ clients' = [clients EXCEPT ![c].pc =
       IF loaded THEN "form" ELSE "load_failed"]
  /\ UNCHANGED <<store, now, app, results, panels>>

\* handleSubmit up to the POST of saveResponse: the form is displayed,
\* validateForm passed, surveyId and invitationValidated are set.
Submit(c) ==
  /\ clients[c].pc \in FormShown
  /\ clients[c].survey # NULL
  /\ clients[c].invitation # NULL
  /\ clients' = [clients EXCEPT ![c].pc = "posting"]
  /\ UNCHANGED <<store, now, app, results, panels>>

\* Mutant of InsertResponse: saveResponse does not throw on a refused insert
\* and goes on to the increment.
InsertResponse_IgnoresRefusal(c) ==
  /\ clients[c].pc = "posting"
  /\ LET inv == clients[c].invitation
         sid == clients[c].survey
     IN IF InsertPolicy(inv, sid)
        THEN /\ nextRespId <= MaxResp
             /\ responses' = responses \cup
                    {[id |-> nextRespId, surveyId |-> sid, invitationId |-> inv]}
             /\ nextRespId' = nextRespId + 1
             /\ inserted' = [inserted EXCEPT ![inv] = @ + 1]
             /\ clients' = [clients EXCEPT ![c].pc = "incrementing"]
        ELSE /\ clients' = [clients EXCEPT ![c].pc = "incrementing"]
             /\ UNCHANGED <<responses, nextRespId, inserted>>
  /\ UNCHANGED <<invitations, nextInvId, now, app, results, panels>>

\* The server handles the POST /survey_responses of saveResponse: the INSERT
\* policy decides; an accepted row is persisted and saveResponse goes on to
\* the increment, a refused one makes saveResponse throw.
InsertResponse(c) ==
  /\ clients[c].pc = "posting"
  /\ LET inv == clients[c].invitation
         sid == clients[c].survey
     IN IF InsertPolicy(inv, sid)
        THEN /\ nextRespId <= MaxResp
             /\ responses' = responses \cup
                    {[id |-> nextRespId, surveyId |-> sid, invitationId |-> inv]}
             /\ nextRespId' = nextRespId + 1
             /\ inserted' = [inserted EXCEPT ![inv] = @ + 1]
             /\ clients' = [clients EXCEPT ![c].pc = "incrementing"]
        ELSE /\ clients' = [clients EXCEPT ![c].pc = "rejected"]
             /\ UNCHANGED <<responses, nextRespId, inserted>>
  /\ UNCHANGED <<invitations, nextInvId, now, app, results, panels>>

\* Mutant of InsertFails: the usage is incremented although the insert failed.
InsertFails_StillIncrements(c) ==
  /\ clients[c].pc = "posting"
  /\ clients[c].invitation \in InvIds
  /\ invitations[clients[c].invitation].usedCount < MaxResp
  /\ invitations' = increment_invitation_usage(clients[c].invitation)
  /\ clients' = [clients EXCEPT ![c].pc = "failed"]
  /\ UNCHANGED <<nextInvId, responses, nextRespId, inserted, now, app, results, panels>>

\* The POST of saveResponse does not reach the server (fetch rejects or the
\* answer is not ok for a transport reason): saveResponse throws, nothing is
\* written.
InsertFails(c) ==
  /\ clients[c].pc = "posting"
  /\ clients' = [clients EXCEPT ![c].pc = "failed"]
  /\ UNCHANGED <<store, now, app, results, panels>>

\* The server handles rpc/increment_invitation_usage; saveResponse returns
\* the saved response and handleSubmit shows the success message.
IncrementUsage(c) ==
  /\ clients[c].pc = "incrementing"
  /\ invitations' = increment_invitation_usage(clients[c].invitation)
  /\ clients' = [clients EXCEPT ![c].pc = "submitted"]
  /\ UNCHANGED <<nextInvId, responses, nextRespId, inserted, now, app, results, panels>>

\* Mutant of IncrementFails: saveResponse lets the failure of the increment
\* escape, so handleSubmit reports a failed submission.
IncrementFails_Propagates(c) ==
  /\ clients[c].pc = "incrementing"
  /\ clients' = [clients EXCEPT ![c].pc = "failed"]
  /\ UNCHANGED <<store, now, app, results, panels>>

\* The increment request fails: incrementInvitationUsage throws, saveResponse
\* catches and logs it and still returns the saved response.
IncrementFails(c) ==
  /\ clients[c].pc = "incrementing"
  /\ clients' = [clients EXCEPT ![c].pc = "submitted"]
  /\ UNCHANGED <<store, now, app, results, panels>>

\* ------------------------------------------------------------ administrator

\* createInvitation(surveyId, {maxUses, expiresAt}): a new active row with a
\* fresh id and token and used_count 0.
CreateInvitation(sid, mu, ex) ==
  /\ nextInvId <= MaxInv
  /\ invitations' = [invitations EXCEPT ![nextInvId] =
       [exists |-> TRUE, surveyId |-> sid, token |-> Token(nextInvId),
        maxUses |-> mu, usedCount |-> 0, expiresAt |-> ex, isActive |-> TRUE]]
  /\ nextInvId' = nextInvId + 1
  /\ UNCHANGED <<responses, nextRespId, inserted, now, clients, app, results, panels>>

\* Mutant of ToggleInvitation: the PATCH also resets used_count.
ToggleInvitation_ResetsCount(i, b) ==
  /\ invitations[i].exists
  /\ invitations[i].isActive # b
  /\ invitations' = [invitations EXCEPT ![i].isActive = b, ![i].usedCount = 0]
  /\ UNCHANGED <<nextInvId, responses, nextRespId, inserted, now, clients, app, results, panels>>

\* toggleInvitation(invitationId, isActive): PATCH of is_active only.
ToggleInvitation(i, b) ==
  /\ invitations[i].exists
  /\ invitations[i].isActive # b
  /\ invitations' = [invitations EXCEPT ![i].isActive = b]
  /\ UNCHANGED <<nextInvId, responses, nextRespId, inserted, now, clients, app, results, panels>>

\* deleteInvitation(invitationId): DELETE of the row; the foreign key of
\* survey_responses.invitation_id refuses it while a response references it.
DeleteInvitation(i) ==
  /\ invitations[i].exists
  /\ \A r \in responses : r.invitationId # i
  /\ invitations' = [invitations EXCEPT ![i] = NoRow]
  /\ UNCHANGED <<nextInvId, responses, nextRespId, inserted, now, clients, app, results, panels>>

\* deleteResponse(responseId): DELETE of one response row.
DeleteResponse(r) ==
  /\ r \in responses
  /\ responses' = responses \ {r}
  /\ UNCHANGED <<invitations, nextInvId, nextRespId, inserted, now, clients, app, results, panels>>

\* The server clock advances.
Tick ==
  /\ now < MaxTime
  /\ now' = now + 1
  /\ UNCHANGED <<store, clients, app, results, panels>>

Next ==
  \/ \E c \in Clients, sid \in Surveys \cup {NULL}, tok \in Tokens \cup {NULL} :
        MountWithoutInvitation(c, sid, tok)
  \/ \E c \in Clients, sid \in Surveys, tok \in Tokens : Mount(c, sid, tok)
  \/ \E c \in Clients, sid \in Surveys, tok \in Tokens :
        MountRequestFails(c, sid, tok)
  \/ \E c \in Clients, loaded \in BOOLEAN : LoadSurvey(c, loaded)
  \/ \E c \in Clients : Submit(c)
  \/ \E c \in Clients : InsertResponse(c)
  \/ \E c \in Clients : InsertFails(c)
  \/ \E c \in Clients : IncrementUsage(c)
  \/ \E c \in Clients : IncrementFails(c)
  \/ \E sid \in Surveys, mu \in MaxUsesChoices, ex \in ExpiresChoices :
        CreateInvitation(sid, mu, ex)
  \/ \E i \in InvIds, b \in BOOLEAN : ToggleInvitation(i, b)
  \/ \E i \in InvIds : DeleteInvitation(i)
  \/ \E r \in responses : DeleteResponse(r)
  \/ Tick

Spec == Init /\ [][Next]_vars

\* ------------------------------------------------------- application shell

\* isAuthenticated() reads the session store; a session whose expires_at lies
\* before the clock is removed and counts as absent.
SessionExpired == session.expires_at # 0 /\ session.expires_at < now

isAuthenticated == session # NoSession /\ ~SessionExpired

\* getSession(): the parsed session of localStorage; NoSession is its null.
getSession == session

\* getHeaders(): the bearer token of an API request is the access token of
\* the stored session (the token of user u is written u), else the
\* anonymous API key.
ApiKey == "anon"
getHeaders == IF session # NoSession THEN session.user ELSE ApiKey

\* checkAuth up to its await: isAuthenticated() (which clears an expired
\* session), setAuthenticated, and for an authenticated session the request
\* of isAdmin() about the current user.
checkAuth ==
  /\ session' = IF session # NoSession /\ SessionExpired
                 THEN NoSession ELSE session
  /\ authenticated' = isAuthenticated
  /\ adminChecks' = IF isAuthenticated
                     THEN adminChecks \cup {session.user} ELSE adminChecks
  /\ UNCHANGED userIsAdmin

\* The mount effect of App: checkAuth().
MountApp ==
  /\ ~mounted
  /\ mounted' = TRUE
  /\ checkAuth
  /\ UNCHANGED <<activeTab, showAuthModal, authTimer>>
  /\ UNCHANGED <<store, now, clients, results, panels>>

\* The answer of an isAdmin() request about user u arrives: ok is whether the
\* request returned rows (a failed request and a thrown error give false);
\* setUserIsAdmin.
IsAdminAnswer(u, ok) ==
  /\ u \in adminChecks
  /\ adminChecks' = adminChecks \ {u}
  /\ userIsAdmin' = (ok /\ ProfileIsAdmin(u))
  /\ UNCHANGED <<session, mounted, authenticated, activeTab, showAuthModal,
                 authTimer>>
  /\ UNCHANGED <<store, now, clients, results, panels>>

\* handleTabClick(tab), the click on the Admin or the Results button.
handleTabClick(tab) ==
  /\ mounted
  /\ IF tab \in {"admin", "results"} /\ ~authenticated
       THEN showAuthModal' = TRUE /\ UNCHANGED activeTab
       ELSE activeTab' = tab /\ UNCHANGED showAuthModal
  /\ UNCHANGED <<session, mounted, authenticated, userIsAdmin, adminChecks,
                 authTimer>>
  /\ UNCHANGED <<store, now, clients, results, panels>>

\* The click on the Survey button: setActiveTab('survey').
SelectSurveyTab ==
  /\ mounted
  /\ activeTab # "survey"
  /\ activeTab' = "survey"
  /\ UNCHANGED <<session, mounted, authenticated, userIsAdmin, showAuthModal,
                 adminChecks, authTimer>>
  /\ UNCHANGED <<store, now, clients, results, panels>>

\* onClose of AuthModal (the close button or a click on the overlay).
CloseAuthModal ==
  /\ showAuthModal
  /\ showAuthModal' = FALSE
  /\ UNCHANGED <<session, mounted, authenticated, userIsAdmin, activeTab,
                 adminChecks, authTimer>>
  /\ UNCHANGED <<store, now, clients, results, panels>>

\* AuthModal.handleSubmit, sign-in accepted: signIn saves the session of user
\* u and the modal starts the timer that will call onAuthenticated.
SignIn(u) ==
  /\ showAuthModal
  /\ session' = [user |-> u, expires_at |-> now + SessionLifetime]
  /\ authTimer' = TRUE
  /\ UNCHANGED <<mounted, authenticated, userIsAdmin, activeTab,
                 showAuthModal, adminChecks>>
  /\ UNCHANGED <<store, now, clients, results, panels>>

\* The timer of AuthModal fires: onAuthenticated() = handleAuthSuccess, that
\* is checkAuth(), then onClose().
AuthTimerFires ==
  /\ authTimer
  /\ authTimer' = FALSE
  /\ checkAuth
  /\ showAuthModal' = FALSE
  /\ UNCHANGED <<mounted, activeTab>>
  /\ UNCHANGED <<store, now, clients, results, panels>>

\* Mutant of handleSignOut: signOut() returns without clearing the session.
handleSignOut_KeepsSession ==
  /\ mounted
  /\ authenticated
  /\ authenticated' = FALSE
  /\ userIsAdmin' = FALSE
  /\ activeTab' = "survey"
  /\ UNCHANGED <<session, mounted, showAuthModal, adminChecks, authTimer>>
  /\ UNCHANGED <<store, now, clients, results, panels>>

\* handleSignOut when signOut() resolves: the session is cleared and the
\* shell goes back to the Survey tab.
handleSignOut ==
  /\ mounted
  /\ authenticated
  /\ session' = NoSession
  /\ authenticated' = FALSE
  /\ userIsAdmin' = FALSE
  /\ activeTab' = "survey"
  /\ UNCHANGED <<mounted, showAuthModal, adminChecks, authTimer>>
  /\ UNCHANGED <<store, now, clients, results, panels>>

\* handleSignOut when the logout request of signOut() throws: signOut clears
\* the session and rethrows, handleSignOut only logs the error.
handleSignOutFails ==
  /\ mounted
  /\ authenticated
  /\ session # NoSession
  /\ session' = NoSession
  /\ UNCHANGED <<mounted, authenticated, userIsAdmin, activeTab,
                 showAuthModal, adminChecks, authTimer>>
  /\ UNCHANGED <<store, now, clients, results, panels>>

\* The page is loaded again: App is constructed anew, requests and timers of
\* the old page are gone, localStorage stays.
Reload ==
  /\ mounted
  /\ mounted' = FALSE
  /\ authenticated' = FALSE
  /\ userIsAdmin' = FALSE
  /\ activeTab' = "survey"
  /\ showAuthModal' = FALSE
  /\ adminChecks' = {}
  /\ authTimer' = FALSE
  /\ UNCHANGED session
  /\ UNCHANGED <<store, now, clients, results, panels>>

AppInit ==
  /\ InitStore
  /\ InitApp
  /\ InitResults
  /\ InitForm
  /\ InitQuestions
  /\ InitReview

AppNext ==
  \/ MountApp
  \/ \E u \in Users, ok \in BOOLEAN : IsAdminAnswer(u, ok)
  \/ \E tab \in {"admin", "results"} : handleTabClick(tab)
  \/ SelectSurveyTab
  \/ CloseAuthModal
  \/ \E u \in Users : SignIn(u)
  \/ AuthTimerFires
  \/ handleSignOut
  \/ handleSignOutFails
  \/ Reload
  \/ Tick

AppSpec == AppInit /\ [][AppNext]_vars

\* The render of App: which view the main area shows.
AdminViewShown == activeTab = "admin" /\ authenticated
ResultsViewShown == activeTab = "results" /\ authenticated

\* ------------------------------------------------------------ results view

\* The scale bounds the administrator may type into the question form.
ScaleBounds == -1..2

\* The label of the options and the limit of the percentage question.
OptionLabels == <<"A", "B", "C">>
PercentageLimit == 100

\* Questions as handleAddQuestion composes them from the form.
ScaleRanges == {r \in ScaleBounds \X ScaleBounds : r[1] <= r[2]}

ScaleDrafts ==
  {[type |-> "scale", options |-> JsNull, scaleMin |-> Num(r[1]),
    scaleMax |-> Num(r[2]), multipleSelect |-> JsNull,
    percentageMax |-> JsNull] : r \in ScaleRanges}

SelectDrafts ==
  {[type |-> "select", options |-> Arr(OptionLabels), scaleMin |-> JsNull,
    scaleMax |-> JsNull, multipleSelect |-> Bool(m),
    percentageMax |-> JsNull] : m \in BOOLEAN}

PercentageDrafts ==
  {[type |-> "percentage", options |-> JsNull, scaleMin |-> JsNull,
    scaleMax |-> JsNull, multipleSelect |-> JsNull,
    percentageMax |-> Num(PercentageLimit)]}

TextDrafts ==
  {[type |-> "text", options |-> JsNull, scaleMin |-> JsNull,
    scaleMax |-> JsNull, multipleSelect |-> JsNull,
    percentageMax |-> JsNull]}

Drafts == ScaleDrafts \cup SelectDrafts \cup PercentageDrafts \cup TextDrafts

\* JavaScript truthiness: null, undefined, 0, '' and false are falsy.
Falsy(v) ==
  \/ v.t \in {"null", "undefined"}
  \/ v.t \in {"number", "boolean"} /\ v.n = 0
  \/ v.t = "string" /\ v.s = ""

\* x || null
OrNull(v) == IF Falsy(v) THEN JsNull ELSE v

\* ToNumber of a number or of null.
ToNumber(v) == IF v.t = "null" THEN 0 ELSE v.n

\* The property key that a value used as an index of an object gives.
PropertyKey(v) ==
  CASE v.t = "number" -> ToString(v.n)
    [] v.t = "string" -> v.s
    [] v.t = "null" -> "null"
    [] v.t = "undefined" -> "undefined"

\* The properties every object literal inherits from Object.prototype with a
\* value other than undefined (those the model's answers can name).
ObjectPrototypeKeys == {"constructor", "toString"}

\* The keys that Object.entries lists first, in ascending numeric order.
ArrayIndexKeys == [k \in 1..10 |-> ToString(k - 1)]

IsArrayIndexKey(key) == \E k \in 1..Len(ArrayIndexKeys) : ArrayIndexKeys[k] = key

\* The object counts, as the sequence of its own properties in insertion
\* order; kind is "NaN" for a count that is not a number.
HasOwn(counts, key) == \E k \in 1..Len(counts) : counts[k].name = key

\* counts[key] = 0
PutZero(counts, key) ==
  IF HasOwn(counts, key)
  THEN [k \in 1..Len(counts) |->
          IF counts[k].name = key
          THEN [name |-> key, count |-> 0, kind |-> "number"]
          ELSE counts[k]]
  ELSE Append(counts, [name |-> key, count |-> 0, kind |-> "number"])

\* if (counts[key] !== undefined) counts[key]++ : an own count is raised; a
\* property inherited from Object.prototype is read, is not undefined, and
\* its increment stores NaN as an own property.
Tally(counts, key) ==
  IF HasOwn(counts, key)
  THEN [k \in 1..Len(counts) |->
          IF counts[k].name = key /\ counts[k].kind = "number"
          THEN [counts[k] EXCEPT !.count = @ + 1]
          ELSE counts[k]]
  ELSE IF key \in ObjectPrototypeKeys
       THEN Append(counts, [name |-> key, count |-> 0, kind |-> "NaN"])
       ELSE counts

RECURSIVE PutZeroAll(_, _)
PutZeroAll(counts, keys) ==
  IF keys = <<>> THEN counts
  ELSE PutZeroAll(PutZero(counts, Head(keys)), Tail(keys))

RECURSIVE TallyAll(_, _)
TallyAll(counts, keys) ==
  IF keys = <<>> THEN counts
  ELSE TallyAll(Tally(counts, Head(keys)), Tail(keys))

\* Object.entries(counts): array-index keys in ascending order, then the other
\* keys in insertion order.
ObjectEntries(counts) ==
  LET IndexEntry(key) ==
        counts[CHOOSE k \in 1..Len(counts) : counts[k].name = key]
      present == SelectSeq(ArrayIndexKeys, LAMBDA key : HasOwn(counts, key))
  IN [k \in 1..Len(present) |-> IndexEntry(present[k])]
     \o SelectSeq(counts, LAMBDA e : ~IsArrayIndexKey(e.name))

\* The keys that the loop  for (i = scaleMin; i <= scaleMax; i++) counts[i] = 0
\* creates: the first key is the key of scaleMin itself, i++ makes i a number.
ScaleKeys(q) ==
  LET lo == ToNumber(q.scaleMin)
      hi == ToNumber(q.scaleMax)
  IN IF lo > hi THEN <<>>
     ELSE <<PropertyKey(q.scaleMin)>> \o
          [k \in 1..(hi - lo) |-> ToString(lo + k)]

\* The keys that the answers of a select question tally: the elements of an
\* array answer, else the answer itself.
RECURSIVE SelectKeys(_)
SelectKeys(as) ==
  IF as = <<>> THEN <<>>
  ELSE (IF Head(as).t = "array"
        THEN Head(as).a
        ELSE <<PropertyKey(Head(as))>>) \o SelectKeys(Tail(as))

\* parseFloat of an answer: a number is itself; the decimal text of an integer
\* is its number, 'Infinity' is Infinity and any other modelled string NaN.
parseFloat(v) ==
  IF v.t = "number" THEN [kind |-> "number", n |-> v.n]
  ELSE IF v.t = "string" /\ \E n \in -1..PercentageLimit : ToString(n) = v.s
       THEN [kind |-> "number",
             n |-> CHOOSE n \in -1..PercentageLimit : ToString(n) = v.s]
  ELSE IF v.t = "string" /\ v.s = "Infinity"
       THEN [kind |-> "Infinity", n |-> 0]
  ELSE [kind |-> "NaN", n |-> 0]

RECURSIVE Sum(_)
Sum(ns) == IF ns = <<>> THEN 0 ELSE Head(ns).n + Sum(Tail(ns))

\* parseFloat((sum / len).toFixed(2)) of a mean that is not negative, in
\* hundredths: the nearest multiple of 0.01, the larger one at a tie.
toFixed2(sum, len) == (200 * sum + len) \div (2 * len)

\* getQuestionData(question) over the answers of filteredResponses.  The
\* result is a sequence of entries: name and count for a bucket; name
\* 'Average' and value100, the value in hundredths, for a percentage; kind
\* tells a number from NaN and Infinity.  The null of the other types is <<>>.
getQuestionData(q, as) ==
  LET kept == SelectSeq(as, LAMBDA a :
                 a.t # "undefined" /\ a.t # "null" /\ a # Str(""))
      Bucket(e) == [name |-> e.name, count |-> e.count, value100 |-> 0,
                    kind |-> e.kind]
      entries(counts) ==
        LET es == ObjectEntries(counts)
        IN [k \in 1..Len(es) |-> Bucket(es[k])]
  IN CASE q.type = "scale" ->
            entries(TallyAll(PutZeroAll(<<>>, ScaleKeys(q)),
                             [k \in 1..Len(kept) |-> PropertyKey(kept[k])]))
       [] q.type = "select" ->
            entries(TallyAll(PutZeroAll(<<>>, q.options.a), SelectKeys(kept)))
       [] q.type = "percentage" ->
            LET parsed == [k \in 1..Len(kept) |-> parseFloat(kept[k])]
                numericAnswers == SelectSeq(parsed, LAMBDA x : x.kind # "NaN")
                infinite == \E k \in 1..Len(numericAnswers) :
                               numericAnswers[k].kind = "Infinity"
            IN <<[name |-> "Average", count |-> 0,
                  value100 |-> IF numericAnswers = <<>> \/ infinite THEN 0
                               ELSE toFixed2(Sum(numericAnswers),
                                             Len(numericAnswers)),
                  kind |-> IF infinite THEN "Infinity" ELSE "number"]>>
       [] OTHER -> <<>>

\* saveQuestions(surveyId, [draft]): the composed question is normalised
\* (every field  x || null) and stored; getQuestions returns it as stored.
saveQuestions ==
  /\ draft # NoQuestion
  /\ question = NoQuestion
  /\ question' = [type |-> draft.type,
                  options |-> OrNull(draft.options),
                  scaleMin |-> OrNull(draft.scaleMin),
                  scaleMax |-> OrNull(draft.scaleMax),
                  multipleSelect |-> OrNull(draft.multipleSelect),
                  percentageMax |-> OrNull(draft.percentageMax)]
  /\ UNCHANGED <<draft, answers, questionData>>
  /\ UNCHANGED <<store, now, clients, app, panels>>

\* The values that a stored response may hold under the id of the question.
AnswerChoices(q) ==
  CASE q.type = "scale" ->
         {Num(n) : n \in ScaleBounds} \cup {Num(3), JsNull}
    [] q.type = "select" ->
         {Str("A"), Str("B"), Str("D"), Str("toString"),
          Arr(<<"A", "B">>), Arr(<<"B">>), Arr(<<"D", "C">>), Undefined}
    [] q.type = "percentage" ->
         {Num(10), Num(20), Str("0"), Str("10"), Str("bad"),
          Str("Infinity"), Str(""), JsNull}
    [] OTHER -> {Str("A"), JsNull}

\* loadData: one more response is in scope; a is its answer to the question.
\* The aggregates are computed anew at the next render.
loadData(a) ==
  /\ question # NoQuestion
  /\ Len(answers) < MaxAnswers
  /\ a \in AnswerChoices(question)
  /\ answers' = Append(answers, a)
  /\ questionData' = NoData
  /\ UNCHANGED <<draft, question>>
  /\ UNCHANGED <<store, now, clients, app, panels>>

\* The render of ResultsView with responses in scope: the aggregate of the
\* question is getQuestionData(question).  (With no response in scope the
\* view shows a notice and computes no aggregate.)
Render ==
  /\ question # NoQuestion
  /\ answers # <<>>
  /\ ~questionData.done
  /\ questionData' = [done |-> TRUE,
                      data |-> getQuestionData(question, answers)]
  /\ UNCHANGED <<draft, question, answers>>
  /\ UNCHANGED <<store, now, clients, app, panels>>

ResultsInit ==
  /\ InitStore
  /\ InitApp
  /\ session = NoSession
  /\ draft \in Drafts
  /\ question = NoQuestion
  /\ answers = <<>>
  /\ questionData = NoData
  /\ InitForm
  /\ InitQuestions
  /\ InitReview

ResultsNext ==
  \/ saveQuestions
  \/ \E a \in AnswerChoices(question) : loadData(a)
  \/ Render

ResultsSpec == ResultsInit /\ [][ResultsNext]_vars

\* --------------------------------------------------- respondent form (C21)

\* What the respondent can type or pick in the participant fields.
FormNames == {"", " ", "Ann"}
FormCountryCodes == {"", "NL"}
FormRoles == {"", "Claims"}

\* String.prototype.trim over the strings above.
Trim(v) == IF v = " " THEN "" ELSE v

\* Stored questions as getQuestions returns them.
FormQuestion(type, options, lo, hi, multi, max) ==
  [type |-> type, options |-> options, scaleMin |-> lo, scaleMax |-> hi,
   multipleSelect |-> multi, percentageMax |-> max]

FormQuestionChoices ==
  {FormQuestion("scale", JsNull, Num(1), Num(2), JsNull, JsNull),
   FormQuestion("select", Arr(<<"A">>), JsNull, JsNull, JsNull, JsNull),
   FormQuestion("select", Arr(<<"A">>), JsNull, JsNull, Bool(TRUE), JsNull),
   FormQuestion("percentage", JsNull, JsNull, JsNull, JsNull, Num(1)),
   FormQuestion("percentage", JsNull, JsNull, JsNull, JsNull, JsNull),
   FormQuestion("text", JsNull, JsNull, JsNull, JsNull, JsNull)}

\* The surveys of the form: two questions each.
FormQuestionLists == FormQuestionChoices \X FormQuestionChoices

\* The value of a number input: the text of a number, '' for anything else.
PercentageInputs == {Str(""), Str("-1"), Str("0"), Str("1"), Str("2")}

\* The values that the scale buttons, the radio buttons and the text area
\* pass to handleAnswerChange.
AnswerInputs(q) ==
  CASE q.type = "scale" -> {Num(1), Num(2)}
    [] q.type = "select" -> {Str("A")}
    [] q.type = "text" -> {Str(""), Str("x")}
    [] OTHER -> {}

\* Mutant of QuestionError: the percentage is not held against its range.
QuestionError_NoRange(q, answer) ==
  IF answer.t \in {"undefined", "null"} \/ answer = Str("")
    THEN "Please answer question"
  ELSE IF /\ q.type = "select"
          /\ ~Falsy(q.multipleSelect)
          /\ answer.t = "array"
          /\ Len(answer.a) = 0
    THEN "Please select at least one option"
  ELSE IF q.type = "percentage" /\ parseFloat(answer).kind = "NaN"
    THEN "Percentage must be between 0 and max"
  ELSE ""

\* The body of the loop of validateForm for one question: the error it
\* sets, '' when the answer passes.
QuestionError(q, answer) ==
  IF answer.t \in {"undefined", "null"} \/ answer = Str("")
    THEN "Please answer question"
  ELSE IF /\ q.type = "select"
          /\ ~Falsy(q.multipleSelect)
          /\ answer.t = "array"
          /\ Len(answer.a) = 0
    THEN "Please select at least one option"
  ELSE IF /\ q.type = "percentage"
          /\ LET numValue == parseFloat(answer)
             IN \/ numValue.kind = "NaN"
                \/ numValue.kind = "number" /\ numValue.n < 0
                \/ numValue.kind = "Infinity"
                \/ /\ numValue.kind = "number"
                   /\ numValue.n > ToNumber(q.percentageMax)
    THEN "Percentage must be between 0 and max"
  ELSE ""

\* validateForm(): the error of the first failing check, '' for true.
validateForm ==
  IF Trim(name) = "" THEN "Please enter your name"
  ELSE IF Trim(countryCode) = "" THEN "Please enter your country code"
  ELSE IF role = "" THEN "Please select your role"
  ELSE LET failing == {k \in 1..Len(formQuestions) :
                         QuestionError(formQuestions[k], formAnswers[k]) # ""}
       IN IF failing = {} THEN ""
          ELSE LET k == CHOOSE j \in failing : \A l \in failing : j <= l
               IN QuestionError(formQuestions[k], formAnswers[k])

setName(v) ==
  /\ ~loading
  /\ name # v
  /\ name' = v
  /\ UNCHANGED <<countryCode, role, formQuestions, formAnswers, formError,
                 loading, saveResponseCalls>>
  /\ UNCHANGED <<store, now, clients, app, results, qstore, review>>

setCountryCode(v) ==
  /\ ~loading
  /\ countryCode # v
  /\ countryCode' = v
  /\ UNCHANGED <<name, role, formQuestions, formAnswers, formError, loading,
                 saveResponseCalls>>
  /\ UNCHANGED <<store, now, clients, app, results, qstore, review>>

setRole(v) ==
  /\ ~loading
  /\ role # v
  /\ role' = v
  /\ UNCHANGED <<name, countryCode, formQuestions, formAnswers, formError,
                 loading, saveResponseCalls>>
  /\ UNCHANGED <<store, now, clients, app, results, qstore, review>>

\* handleAnswerChange(question.id, value) for question k.
handleAnswerChange(k, v) ==
  /\ ~loading
  /\ k \in 1..Len(formQuestions)
  /\ v \in AnswerInputs(formQuestions[k])
  /\ formAnswers[k] # v
  /\ formAnswers' = [formAnswers EXCEPT ![k] = v]
  /\ UNCHANGED <<name, countryCode, role, formQuestions, formError, loading,
                 saveResponseCalls>>
  /\ UNCHANGED <<store, now, clients, app, results, qstore, review>>

\* handlePercentageChange(question.id, e.target.value) for question k.
handlePercentageChange(k, v) ==
  /\ ~loading
  /\ k \in 1..Len(formQuestions)
  /\ formQuestions[k].type = "percentage"
  /\ formAnswers[k] # v
  /\ formAnswers' = [formAnswers EXCEPT ![k] = v]
  /\ UNCHANGED <<name, countryCode, role, formQuestions, formError, loading,
                 saveResponseCalls>>
  /\ UNCHANGED <<store, now, clients, app, results, qstore, review>>

\* handleMultipleSelectChange(question.id, option, checked) for question k:
\* the box of the option was ticked or cleared.
handleMultipleSelectChange(k, option, checked) ==
  /\ ~loading
  /\ k \in 1..Len(formQuestions)
  /\ formQuestions[k].type = "select"
  /\ ~Falsy(formQuestions[k].multipleSelect)
  /\ LET currentAnswers == IF Falsy(formAnswers[k]) THEN <<>>
                           ELSE formAnswers[k].a
         isChecked == \E j \in 1..Len(currentAnswers) :
                         currentAnswers[j] = option
     IN /\ checked = ~isChecked
        /\ formAnswers' = [formAnswers EXCEPT ![k] =
             Arr(IF checked THEN Append(currentAnswers, option)
                 ELSE SelectSeq(currentAnswers, LAMBDA a : a # option))]
  /\ UNCHANGED <<name, countryCode, role, formQuestions, formError, loading,
                 saveResponseCalls>>
  /\ UNCHANGED <<store, now, clients, app, results, qstore, review>>

\* handleSubmit up to its await: the banner is cleared, validateForm() runs,
\* and only when it returns true saveResponse is invoked.  (The form is
\* rendered only with a survey loaded under a validated invitation, so the
\* checks of surveyId and invitationValidated pass.)
handleSubmit ==
  /\ ~loading
  /\ formQuestions # <<>>
  /\ saveResponseCalls < MaxSubmits
  /\ IF validateForm # ""
       THEN /\ formError' = validateForm
            /\ UNCHANGED <<loading, saveResponseCalls>>
       ELSE /\ formError' = ""
            /\ loading' = TRUE
            /\ saveResponseCalls' = saveResponseCalls + 1
  /\ UNCHANGED <<name, countryCode, role, formQuestions, formAnswers>>
  /\ UNCHANGED <<store, now, clients, app, results, qstore, review>>

\* saveResponse settles: on success the form is cleared, on failure the
\* banner shows the error; loading ends either way.
SaveResponseSettles(ok) ==
  /\ loading
  /\ loading' = FALSE
  /\ IF ok
       THEN /\ name' = ""
            /\ countryCode' = ""
            /\ role' = ""
            /\ formAnswers' = [k \in 1..Len(formQuestions) |-> Undefined]
            /\ UNCHANGED formError
       ELSE /\ formError' = "Failed to submit survey"
            /\ UNCHANGED <<name, countryCode, role, formAnswers>>
  /\ UNCHANGED <<formQuestions, saveResponseCalls>>
  /\ UNCHANGED <<store, now, clients, app, results, qstore, review>>

\* The form of a respondent whose invitation was validated, over any of the
\* surveys, nothing filled in yet.
FormInit ==
  /\ InitStore
  /\ InitApp
  /\ session = NoSession
  /\ InitResults
  /\ InitQuestions
  /\ InitReview
  /\ name = ""
  /\ countryCode = ""
  /\ role = ""
  /\ formQuestions \in FormQuestionLists
  /\ formAnswers = <<Undefined, Undefined>>
  /\ formError = ""
  /\ loading = FALSE
  /\ saveResponseCalls = 0

FormNext ==
  \/ \E v \in FormNames : setName(v)
  \/ \E v \in FormCountryCodes : setCountryCode(v)
  \/ \E v \in FormRoles : setRole(v)
  \/ \E k \in 1..2, v \in {Num(1), Num(2), Str(""), Str("A"), Str("x")} :
        handleAnswerChange(k, v)
  \/ \E k \in 1..2, v \in PercentageInputs : handlePercentageChange(k, v)
  \/ \E k \in 1..2, checked \in BOOLEAN :
        handleMultipleSelectChange(k, "A", checked)
  \/ handleSubmit
  \/ \E ok \in BOOLEAN : SaveResponseSettles(ok)

FormSpec == FormInit /\ [][FormNext]_vars

\* ------------------------------------------- question list of a survey

\* A question of AdminView's list as handleAddQuestion composes it.
AdminQuestion(text, type, options, lo, hi, multi, max) ==
  [text |-> text, type |-> type, options |-> options, scaleMin |-> lo,
   scaleMax |-> hi, multipleSelect |-> multi, percentageMax |-> max]

QuestionInputs ==
  {AdminQuestion("Q1", "scale", JsNull, Num(0), Num(2), JsNull, JsNull),
   AdminQuestion("Q2", "select", Arr(<<"A">>), JsNull, JsNull, Bool(FALSE),
                 JsNull),
   AdminQuestion("Q3", "percentage", JsNull, JsNull, JsNull, JsNull,
                 Num(100))}

\* The lists that 'Save All Questions' passes on (it refuses an empty list).
QuestionLists ==
  {<<q>> : q \in QuestionInputs} \cup (QuestionInputs \X QuestionInputs)

\* The row that saveQuestions builds for questions[index]: every optional
\* field  x || null, surveyId and questionOrder = index.
NormalizeQuestion(q, sid, index) ==
  [surveyId |-> sid, questionOrder |-> index, text |-> q.text,
   type |-> q.type, options |-> OrNull(q.options),
   scaleMin |-> OrNull(q.scaleMin), scaleMax |-> OrNull(q.scaleMax),
   multipleSelect |-> OrNull(q.multipleSelect),
   percentageMax |-> OrNull(q.percentageMax)]

\* The stored row of a sent row under the id the serial gives it.
StoredQuestion(row, id) ==
  [id |-> id, surveyId |-> row.surveyId, questionOrder |-> row.questionOrder,
   text |-> row.text, type |-> row.type, options |-> row.options,
   scaleMin |-> row.scaleMin, scaleMax |-> row.scaleMax,
   multipleSelect |-> row.multipleSelect,
   percentageMax |-> row.percentageMax]

\* getQuestions(surveyId): the rows of the survey,
\* order=question_order.asc,id.asc.
RECURSIVE OrderedRows(_)
OrderedRows(rows) ==
  IF rows = {} THEN <<>>
  ELSE LET first == CHOOSE r \in rows : \A o \in rows :
                      \/ r.questionOrder < o.questionOrder
                      \/ r.questionOrder = o.questionOrder /\ r.id <= o.id
       IN <<first>> \o OrderedRows(rows \ {first})

getQuestions(sid) ==
  OrderedRows({r \in survey_questions : r.surveyId = sid})

\* handleSaveAllQuestions: saveQuestions(selectedSurveyId, questions) is
\* called and sends its DELETE of all questions of the survey.
handleSaveAllQuestions(sid, qs) ==
  /\ saving.pc \in {"idle", "saved", "failed"}
  /\ nextQuestionId + Len(qs) - 1 <= MaxQuestionId
  /\ saving' = [pc |-> "deleting", surveyId |-> sid, questions |-> qs,
                sent |-> <<>>, before |-> survey_questions]
  /\ UNCHANGED <<survey_questions, nextQuestionId>>
  /\ UNCHANGED <<store, now, clients, app, results, form, review>>

\* The DELETE is answered; ok tells whether the server carried it out.  The
\* answer is not inspected: saveQuestions goes on to build the rows and to
\* send the POST.
DeleteQuestionsAnswered(ok) ==
  /\ saving.pc = "deleting"
  /\ survey_questions' =
       IF ok THEN {r \in survey_questions : r.surveyId # saving.surveyId}
       ELSE survey_questions
  /\ saving' = [saving EXCEPT
       !.pc = "inserting",
       !.sent = [k \in 1..Len(saving.questions) |->
                   NormalizeQuestion(saving.questions[k], saving.surveyId,
                                     k - 1)]]
  /\ UNCHANGED nextQuestionId
  /\ UNCHANGED <<store, now, clients, app, results, form, review>>

\* The DELETE request itself fails (fetch rejects): saveQuestions rethrows
\* and handleSaveAllQuestions shows the error.
DeleteQuestionsRejects ==
  /\ saving.pc = "deleting"
  /\ saving' = [saving EXCEPT !.pc = "failed"]
  /\ UNCHANGED <<survey_questions, nextQuestionId>>
  /\ UNCHANGED <<store, now, clients, app, results, form, review>>

\* The POST is answered ok: the rows are stored under fresh ids and
\* saveQuestions returns them; handleSaveAllQuestions shows success.
InsertQuestionsAnswered ==
  /\ saving.pc = "inserting"
  /\ survey_questions' = survey_questions \cup
       {StoredQuestion(saving.sent[k], nextQuestionId + k - 1) :
          k \in 1..Len(saving.sent)}
  /\ nextQuestionId' = nextQuestionId + Len(saving.sent)
  /\ saving' = [saving EXCEPT !.pc = "saved"]
  /\ UNCHANGED <<store, now, clients, app, results, form, review>>

\* The POST fails (the request rejects or the answer is not ok):
\* saveQuestions throws and handleSaveAllQuestions shows the error.
InsertQuestionsFails ==
  /\ saving.pc = "inserting"
  /\ saving' = [saving EXCEPT !.pc = "failed"]
  /\ UNCHANGED <<survey_questions, nextQuestionId>>
  /\ UNCHANGED <<store, now, clients, app, results, form, review>>

QuestionsInit ==
  /\ InitStore
  /\ InitApp
  /\ session = NoSession
  /\ InitResults
  /\ InitForm
  /\ InitReview
  /\ InitQuestions

QuestionsNext ==
  \/ \E sid \in Surveys, qs \in QuestionLists : handleSaveAllQuestions(sid, qs)
  \/ \E ok \in BOOLEAN : DeleteQuestionsAnswered(ok)
  \/ DeleteQuestionsRejects
  \/ InsertQuestionsAnswered
  \/ InsertQuestionsFails

QuestionsSpec == QuestionsInit /\ [][QuestionsNext]_vars

\* ------------------------------------------------ response list of a survey

\* What a respondent enters as country code and role, and the users whose
\* session the respondent's browser may hold ('' for none).
ResponseCountries == {"NL", "DE"}
ResponseRoles == {"Claims"}
ResponseUsers == {"", "user"}

\* The answers as submitted, and as rewritten by a later update.
SubmittedAnswers == "submitted"
RewrittenAnswers == "rewritten"

\* RLS on survey_responses for UPDATE ("Users can update own responses"):
\* USING and WITH CHECK user_id = auth.uid(); u is the caller, '' anonymous.
UpdatePolicy(row, u) == u # "" /\ row.userId = u

\* saveResponse for a respondent of country cc and role rl in a browser that
\* holds the session of u: a new row with user_id of that session (null for
\* none).  The invitation check of the INSERT policy is modelled by
\* InsertResponse.
SaveResponseRow(u, cc, rl) ==
  /\ nextResponseId <= MaxResponseId
  /\ survey_responses' = survey_responses \cup
       {[id |-> nextResponseId, userId |-> u, countryCode |-> cc,
         role |-> rl, answers |-> SubmittedAnswers]}
  /\ nextResponseId' = nextResponseId + 1
  /\ UNCHANGED <<loadedResponses, filterCountry, filterRole,
                 selectedResponses, deleting>>
  /\ UNCHANGED <<store, now, clients, app, results, form, qstore>>

\* A PATCH on survey_responses?id=eq.<id> sent with the token of user u: the
\* UPDATE policy admits it for the rows of that user.
UpdateOwnResponse(u, id) ==
  /\ \E row \in survey_responses :
       /\ row.id = id
       /\ UpdatePolicy(row, u)
       /\ row.answers = SubmittedAnswers
       /\ survey_responses' = (survey_responses \ {row}) \cup
            {[row EXCEPT !.answers = RewrittenAnswers]}
  /\ UNCHANGED <<nextResponseId, loadedResponses, filterCountry, filterRole,
                 selectedResponses, deleting>>
  /\ UNCHANGED <<store, now, clients, app, results, form, qstore>>

\* filteredResponses of ResultsView.
filteredResponses ==
  {response \in loadedResponses :
     /\ filterCountry = "All" \/ response.countryCode = filterCountry
     /\ filterRole = "All" \/ response.role = filterRole}

\* The ids of a set of rows.
Ids(rows) == {r.id : r \in rows}

\* loadData of ResultsView (on mount and on a change of the survey): the
\* responses are fetched and the selection is cleared.
LoadResponses ==
  /\ deleting.pending = {}
  /\ loadedResponses' = survey_responses
  /\ selectedResponses' = {}
  /\ UNCHANGED <<survey_responses, nextResponseId, filterCountry, filterRole,
                 deleting>>
  /\ UNCHANGED <<store, now, clients, app, results, form, qstore>>

\* setFilterCountry(e.target.value): the options are 'All' and the country
\* codes of the loaded responses.
setFilterCountry(v) ==
  /\ v \in {"All"} \cup {r.countryCode : r \in loadedResponses}
  /\ v # filterCountry
  /\ filterCountry' = v
  /\ UNCHANGED <<survey_responses, nextResponseId, loadedResponses,
                 filterRole, selectedResponses, deleting>>
  /\ UNCHANGED <<store, now, clients, app, results, form, qstore>>

\* setFilterRole(e.target.value).
setFilterRole(v) ==
  /\ v \in {"All"} \cup {r.role : r \in loadedResponses}
  /\ v # filterRole
  /\ filterRole' = v
  /\ UNCHANGED <<survey_responses, nextResponseId, loadedResponses,
                 filterCountry, selectedResponses, deleting>>
  /\ UNCHANGED <<store, now, clients, app, results, form, qstore>>

\* toggleResponseSelection(responseId), the checkbox of a listed response.
toggleResponseSelection(id) ==
  /\ id \in Ids(filteredResponses)
  /\ selectedResponses' = IF id \in selectedResponses
                           THEN selectedResponses \ {id}
                           ELSE selectedResponses \cup {id}
  /\ UNCHANGED <<survey_responses, nextResponseId, loadedResponses,
                 filterCountry, filterRole, deleting>>
  /\ UNCHANGED <<store, now, clients, app, results, form, qstore>>

\* toggleSelectAll(): clears the selection when it is as large as the list
\* shown, else selects the list shown.
toggleSelectAll ==
  /\ filteredResponses # {}
  /\ selectedResponses' =
       IF Cardinality(selectedResponses) = Cardinality(filteredResponses)
       THEN {} ELSE Ids(filteredResponses)
  /\ UNCHANGED <<survey_responses, nextResponseId, loadedResponses,
                 filterCountry, filterRole, deleting>>
  /\ UNCHANGED <<store, now, clients, app, results, form, qstore>>

\* The 'Clear Selection' button.
ClearSelection ==
  /\ selectedResponses # {}
  /\ selectedResponses' = {}
  /\ UNCHANGED <<survey_responses, nextResponseId, loadedResponses,
                 filterCountry, filterRole, deleting>>
  /\ UNCHANGED <<store, now, clients, app, results, form, qstore>>

\* handleDeleteSelected up to its await: deleteResponses(selected ids) sends
\* one DELETE per id, all at once (Promise.all over deleteResponse).
handleDeleteSelected ==
  /\ selectedResponses # {}
  /\ deleting.pending = {}
  /\ deleting' = [pc |-> "running", ids |-> selectedResponses,
                  pending |-> selectedResponses, before |-> survey_responses]
  /\ UNCHANGED <<survey_responses, nextResponseId, loadedResponses,
                 filterCountry, filterRole, selectedResponses>>
  /\ UNCHANGED <<store, now, clients, app, results, form, qstore>>

\* The DELETE of one id is answered.  ok: the row is gone; when that was the
\* last request and none has failed, deleteResponses returns true and
\* handleDeleteSelected clears the selection and reloads.  Not ok:
\* deleteResponse throws, Promise.all rejects at once and
\* handleDeleteSelected shows the error, while the other requests stay on
\* their way.
DeleteResponseAnswered(id, ok) ==
  /\ id \in deleting.pending
  /\ survey_responses' = IF ok THEN {r \in survey_responses : r.id # id}
                         ELSE survey_responses
  /\ deleting' = [deleting EXCEPT
       !.pending = @ \ {id},
       !.pc = IF deleting.pc = "running" /\ ~ok THEN "failed"
              ELSE IF deleting.pc = "running" /\ deleting.pending = {id}
                THEN "deleted"
              ELSE @]
  /\ IF deleting.pc = "running" /\ ok /\ deleting.pending = {id}
       THEN /\ selectedResponses' = {}
            /\ loadedResponses' = survey_responses'
       ELSE UNCHANGED <<selectedResponses, loadedResponses>>
  /\ UNCHANGED <<nextResponseId, filterCountry, filterRole>>
  /\ UNCHANGED <<store, now, clients, app, results, form, qstore>>

ReviewInit ==
  /\ InitStore
  /\ InitApp
  /\ session = NoSession
  /\ InitResults
  /\ InitForm
  /\ InitQuestions
  /\ InitReview

ReviewNext ==
  \/ \E u \in ResponseUsers, cc \in ResponseCountries, rl \in ResponseRoles :
        SaveResponseRow(u, cc, rl)
  \/ \E u \in ResponseUsers, id \in 1..MaxResponseId : UpdateOwnResponse(u, id)
  \/ LoadResponses
  \/ \E v \in {"All"} \cup ResponseCountries : setFilterCountry(v)
  \/ \E v \in {"All"} \cup ResponseRoles : setFilterRole(v)
  \/ \E id \in 1..MaxResponseId : toggleResponseSelection(id)
  \/ toggleSelectAll
  \/ ClearSelection
  \/ handleDeleteSelected
  \/ \E id \in 1..MaxResponseId, ok \in BOOLEAN : DeleteResponseAnswered(id, ok)

ReviewSpec == ReviewInit /\ [][ReviewNext]_vars

\* ------------------------------------------------------------------ claims

ResponsesOf(i) == {r \in responses : r.invitationId = i}

Limited(i) == invitations[i].exists /\ invitations[i].maxUses # NULL

\* C1 (as claimed): for an invitation with non-null maxUses = N, the number of
\* persisted responses that reference it never exceeds N, under every
\* interleaving of concurrent submissions.
C1_AtMostMaxUsesResponses ==
  \A i \in InvIds :
    Limited(i) => Cardinality(ResponsesOf(i)) <= invitations[i].maxUses

\* C2 (as claimed): every invitation with non-null maxUses has
\* usedCount <= maxUses in every reachable state.
C2_UsedCountWithinLimit ==
  \A i \in InvIds :
    Limited(i) => invitations[i].usedCount <= invitations[i].maxUses

NoSubmissionInFlight ==
  \A c \in Clients : clients[c].pc \notin {"posting", "incrementing"}

\* C4 (as claimed): whenever no submission is in flight, usedCount equals the
\* number of responses persisted with that invitation id.
C4_UsedCountEqualsResponses ==
  NoSubmissionInFlight =>
    \A i \in InvIds :
      invitations[i].exists => invitations[i].usedCount = inserted[i]

\* A step in which session c ran validateInvitation (the mount of the view
\* with both URL parameters), whatever the answer.
ValidationStep(c) ==
  /\ clients[c].pc \notin InFlight
  /\ clients'[c] # clients[c]
  /\ clients'[c].pc \in {"invalid_link", "loading"}

\* C5: validateInvitation is read-only: a validation, with any token and
\* surveyId, leaves every stored invitation (usedCount included) and every
\* stored response unchanged.
C5_ValidationReadOnly ==
  [][(\E c \in Clients : ValidationStep(c)) => UNCHANGED store]_vars

\* C5 witness: the same under-limit invitation has been validated twice (by
\* both sessions) without a submission, and its usedCount is still 0.
C5_Witness ==
  \E i \in InvIds :
    /\ invitations[i].exists
    /\ invitations[i].maxUses = 1
    /\ invitations[i].usedCount = 0
    /\ inserted[i] = 0
    /\ \A c \in Clients :
         clients[c].pc = "form" /\ clients[c].invitation = i

\* The validity of section 4.1 at instant t: a row with this token and this
\* surveyId exists, is active, has not expired before t and is under its limit.
SpecValid(tok, sid, t) ==
  \E i \in InvIds :
    /\ invitations[i].exists
    /\ invitations[i].token = tok
    /\ invitations[i].surveyId = sid
    /\ invitations[i].isActive
    /\ (invitations[i].expiresAt = NULL \/ invitations[i].expiresAt >= t)
    /\ (invitations[i].maxUses = NULL
          \/ invitations[i].usedCount < invitations[i].maxUses)

\* C6 (as claimed): validateInvitation evaluated at instant now returns an
\* invitation if and only if the record exists for that token and surveyId,
\* is active, has expiresAt null or not earlier than now, and has maxUses
\* null or usedCount < maxUses.
C6_ValidIffAllChecksPass ==
  \A tok \in Tokens, sid \in Surveys, admin \in BOOLEAN :
    (validateInvitation(tok, sid, now, admin) # NULL) <=> SpecValid(tok, sid, now)

\* The first failing check of section 4.1, in its order.
Kind(tok, sid, t) ==
  LET rows == {i \in InvIds : /\ invitations[i].exists
                              /\ invitations[i].token = tok
                              /\ invitations[i].surveyId = sid}
  IN IF rows = {} THEN "NotFound"
     ELSE LET r == invitations[CHOOSE j \in rows : TRUE]
          IN IF ~r.isActive THEN "Inactive"
             ELSE IF r.expiresAt # NULL /\ r.expiresAt < t THEN "Expired"
             ELSE IF r.maxUses # NULL /\ r.usedCount >= r.maxUses
               THEN "ExhaustedUses"
             ELSE "Valid"

Lookups == Tokens \X Surveys

C8_ScopedBySurvey ==
  /\ \A tok \in Tokens, sid \in Surveys, cnow \in Times, admin \in BOOLEAN :
       LET v == validateInvitation(tok, sid, cnow, admin)
       IN v # NULL => /\ invitations[v].surveyId = sid
                      /\ invitations[v].token = tok
  /\ \A c \in Clients :
       (clients[c].invitation # NULL /\ invitations[clients[c].invitation].exists)
         => invitations[clients[c].invitation].surveyId = clients[c].survey
  /\ \A r \in responses :
       /\ invitations[r.invitationId].exists
       /\ invitations[r.invitationId].surveyId = r.surveyId

\* C8 witness: a session used the token of a valid invitation of one survey
\* with the identifier of the other survey and was refused, while a response
\* has been persisted for the invitation's own survey.
C8_Witness ==
  \E c \in Clients, i \in InvIds :
    /\ clients[c].pc = "invalid_link"
    /\ invitations[i].exists
    /\ clients[c].invite = invitations[i].token
    /\ clients[c].survey # invitations[i].surveyId
    /\ SpecValid(invitations[i].token, invitations[i].surveyId, now)
    /\ ResponsesOf(i) # {}

\* The invitation held by a loaded form is, in the server's state and by the
\* server's clock, deactivated, expired or exhausted.
StaleAtServer(inv) ==
  /\ invitations[inv].exists
  /\ \/ ~invitations[inv].isActive
     \/ invitations[inv].expiresAt # NULL /\ invitations[inv].expiresAt < now
     \/ /\ invitations[inv].maxUses # NULL
        /\ invitations[inv].usedCount >= invitations[inv].maxUses

\* Session c's POST of saveResponse is answered in this step.
PostAnswered(c) ==
  clients[c].pc = "posting" /\ clients'[c].pc # "posting"

NotValidAtSubmission(inv, sid) ==
  ~ /\ invitations[inv].exists
    /\ invitations[inv].surveyId = sid
    /\ invitations[inv].isActive
    /\ (invitations[inv].expiresAt = NULL \/ invitations[inv].expiresAt >= now)
    /\ (invitations[inv].maxUses = NULL
          \/ invitations[inv].usedCount < invitations[inv].maxUses)

\* C10: if the invitation is not valid at submission time the submission
\* fails and nothing is written: no response row is persisted, usedCount is
\* unchanged and no increment is issued for it.
C10_InvalidSubmissionWritesNothing ==
  [][\A c \in Clients :
       (PostAnswered(c)
          /\ NotValidAtSubmission(clients[c].invitation, clients[c].survey))
         => /\ UNCHANGED store
            /\ clients'[c].pc \in {"rejected", "failed"}]_vars

\* C10 witness: a submission was rejected for a deactivated invitation and
\* the store holds no response and no use for it.
C10_Witness ==
  \E c \in Clients, i \in InvIds :
    /\ clients[c].pc = "rejected" /\ clients[c].invitation = i
    /\ invitations[i].exists /\ ~invitations[i].isActive
    /\ invitations[i].usedCount = 0
    /\ inserted[i] = 0
    /\ responses = {}

\* C11: when the insert succeeded and the increment fails, the failure is not
\* propagated: the step that ends the increment without touching the
\* invitations leaves the session at the success message ("submitted") and
\* the persisted response rows as they are.
C11_IncrementFailureSwallowed ==
  [][\A c \in Clients :
       (/\ clients[c].pc = "incrementing"
        /\ clients'[c].pc # "incrementing"
        /\ invitations' = invitations)
       => (clients'[c].pc = "submitted" /\ responses' = responses)]_vars

\* C11 witness: a session was told its submission succeeded, its row is
\* persisted, and the invitation was never incremented.
C11_Witness ==
  \E c \in Clients, i \in InvIds :
    /\ clients[c].pc = "submitted"
    /\ clients[c].invitation = i
    /\ invitations[i].exists
    /\ invitations[i].usedCount = 0
    /\ inserted[i] >= 1
    /\ ResponsesOf(i) # {}

\* The invitation was used for a completed submission: a session that
\* submitted with it has been shown the success message.
UsedForCompletedSubmission(i) ==
  \E c \in Clients :
    clients[c].pc = "submitted" /\ clients[c].invitation = i

\* C12 (as claimed): once an invitation with maxUses = 1 has been used for one
\* completed submission, every later validateInvitation with its link answers
\* null and every later insert with it is refused by the INSERT policy.
C12_SequentialReuseRejected ==
  \A i \in InvIds :
    (/\ invitations[i].exists
     /\ invitations[i].maxUses = 1
     /\ UsedForCompletedSubmission(i))
    => /\ \A cnow \in Times, admin \in BOOLEAN :
            validateInvitation(invitations[i].token, invitations[i].surveyId,
                               cnow, admin) = NULL
       /\ ~InsertPolicy(i, invitations[i].surveyId)

\* C13 (as claimed): in every state reachable by tab clicks, sign-in, sign-out
\* (successful or failing) and auth checks, the Admin or the Results view is
\* displayed only while a session is present in the session store.
C13_ViewsOnlyWithSession ==
  (AdminViewShown \/ ResultsViewShown) => session # NoSession

\* C14 (as claimed): an authenticated user whose profile is not flagged admin
\* (the admin lookup has answered and userIsAdmin is false) never has the
\* Admin or the Results view displayed.
C14_NonAdminLockedOut ==
  (/\ authenticated
   /\ session # NoSession
   /\ ~ProfileIsAdmin(session.user)
   /\ adminChecks = {}
   /\ ~userIsAdmin)
  => ~(AdminViewShown \/ ResultsViewShown)

\* Requester c holds a valid invitation for survey sid: the token of its link
\* is the token of an invitation of that survey that is active, not expired
\* and under its limit.
HoldsValidInvitation(c, sid) ==
  \E i \in InvIds :
    /\ invitations[i].exists
    /\ invitations[i].token = clients[c].invite
    /\ invitations[i].surveyId = sid
    /\ invitations[i].isActive
    /\ (invitations[i].expiresAt = NULL \/ invitations[i].expiresAt > now)
    /\ (invitations[i].maxUses = NULL
          \/ invitations[i].usedCount < invitations[i].maxUses)

\* C15 (as claimed): a non-admin requester is granted read access to a survey
\* or to its questions only if that requester holds a valid invitation for
\* the survey.
C15_ReadOnlyWithOwnInvitation ==
  \A c \in Clients, sid \in Surveys :
    (SurveyReadPolicy(sid, FALSE) \/ QuestionReadPolicy(sid, FALSE))
    => HoldsValidInvitation(c, sid)

\* The number of in-scope responses whose answer is the integer n.
AnswersEqual(n) ==
  Cardinality({k \in 1..Len(answers) : answers[k] = Num(n)})

RECURSIVE SumCounts(_)
SumCounts(data) ==
  IF data = <<>> THEN 0 ELSE Head(data).count + SumCounts(Tail(data))

\* C16 (as claimed): for a scale question that the administrator defined
\* with the range [scaleMin, scaleMax], the aggregator returns exactly
\* scaleMax - scaleMin + 1 buckets, one per integer of the range, each with
\* the number of responses whose answer is that integer, and the counts sum
\* to the number of responses whose answer lies in the range.
C16_ScaleBuckets ==
  (questionData.done /\ draft.type = "scale") =>
    LET lo == draft.scaleMin.n
        hi == draft.scaleMax.n
        data == questionData.data
    IN /\ Len(data) = hi - lo + 1
       /\ \A n \in lo..hi :
            \E k \in 1..Len(data) :
              /\ data[k].name = ToString(n)
              /\ data[k].kind = "number"
              /\ data[k].count = AnswersEqual(n)
       /\ SumCounts(data) =
            Cardinality({k \in 1..Len(answers) :
                           answers[k].t = "number" /\ answers[k].n \in lo..hi})

\* The number of times the option is chosen: answers equal to it plus its
\* occurrences inside the array answers.
Occurrences(option) ==
  Cardinality({k \in 1..Len(answers) : answers[k] = Str(option)})
  + Cardinality({p \in (1..Len(answers)) \X (1..Len(OptionLabels)) :
                   /\ answers[p[1]].t = "array"
                   /\ p[2] <= Len(answers[p[1]].a)
                   /\ answers[p[1]].a[p[2]] = option})

\* C17 (as claimed): for a select question the aggregator returns one bucket
\* per declared option, in the order of the options, whose count is the
\* number of single answers equal to the option plus its occurrences inside
\* array answers; answers and elements equal to no option are ignored.
C17_SelectBuckets ==
  (questionData.done /\ question.type = "select") =>
    LET options == question.options.a
        data == questionData.data
    IN /\ Len(data) = Len(options)
       /\ \A k \in 1..Len(data) :
            /\ data[k].name = options[k]
            /\ data[k].kind = "number"
            /\ data[k].count = Occurrences(options[k])

\* The in-scope answers that parse as a finite number, parsed.
FiniteAnswers ==
  SelectSeq([k \in 1..Len(answers) |-> parseFloat(answers[k])],
            LAMBDA x : x.kind = "number")

\* v hundredths is the quotient sum / len rounded to two decimals.
IsRoundedMean(v, sum, len) ==
  LET d == v * len - 100 * sum
  IN 2 * (IF d < 0 THEN -d ELSE d) <= len

\* C18 (as claimed): the average reported for a percentage question is the
\* mean, rounded to 2 decimals, of exactly the in-scope answers that parse as
\* a finite number; every other answer is excluded.
C18_AverageOfFiniteAnswers ==
  (questionData.done /\ question.type = "percentage" /\ FiniteAnswers # <<>>)
  => /\ Len(questionData.data) = 1
     /\ questionData.data[1].kind = "number"
     /\ IsRoundedMean(questionData.data[1].value100, Sum(FiniteAnswers),
                      Len(FiniteAnswers))

\* No in-scope response has a numeric answer to the question.
NoNumericAnswer ==
  \A k \in 1..Len(answers) : parseFloat(answers[k]).kind = "NaN"

\* C19 (as claimed): when no in-scope response has a numeric answer for a
\* percentage question, the aggregator reports no average at all: no entry
\* of its result carries a number (or NaN).
C19_NoDataReportsNoAverage ==
  (questionData.done /\ question.type = "percentage" /\ NoNumericAnswer)
  => \A k \in 1..Len(questionData.data) :
       questionData.data[k].kind \notin {"number", "NaN", "Infinity"}

C25_ValidatorAgreesWithInsertCheck ==
  \A i \in InvIds, sid \in Surveys, admin \in BOOLEAN :
    invitations[i].exists =>
      ((validateInvitation(invitations[i].token, sid, now, admin) = i)
         <=> InsertPolicy(i, sid))

\* ------------------------------------------------------------------- C28

\* C28: signing out always clears the session.  After signOut() completes,
\* whether it returns (handleSignOut) or throws (handleSignOutFails), no
\* session is stored: getSession() is null, isAuthenticated() is false and
\* the next API request carries the anonymous key.
C28_SignOutClearsSession ==
  [][(handleSignOut \/ handleSignOutFails) =>
       /\ getSession' = NoSession
       /\ ~isAuthenticated'
       /\ getHeaders' = ApiKey]_vars

\* signOut() threw for a signed-in administrator: the shell still shows the
\* signed-in state, and the session store is empty.
C28_Witness ==
  /\ mounted
  /\ authenticated
  /\ getSession = NoSession
  /\ getHeaders = ApiKey

\* ------------------------------------------------------------------- C21

\* The respondent's form is malformed in the sense of the claim: a
\* participant field is empty, a question has no answer, a percentage answer
\* is not the text of a number within [0, percentageMax], or the answer to a
\* multi-select question is the empty sequence.
Malformed ==
  \/ name = ""
  \/ countryCode = ""
  \/ role = ""
  \/ \E k \in 1..Len(formQuestions) :
       LET q == formQuestions[k]
           a == formAnswers[k]
       IN \/ a = Undefined
          \/ a = Str("")
          \/ /\ q.type = "percentage"
             /\ q.percentageMax.t = "number"
             /\ a.s \notin {ToString(n) : n \in 0..q.percentageMax.n}
          \/ /\ q.type = "select"
             /\ q.multipleSelect = Bool(TRUE)
             /\ a = Arr(<<>>)

\* C21: a malformed submission is surfaced before any network call.  A
\* handleSubmit on a malformed form sets an error and does not invoke
\* saveResponse.
C21_MalformedNeverSent ==
  [][(handleSubmit /\ Malformed) =>
       /\ formError' # ""
       /\ ~loading'
       /\ saveResponseCalls' = saveResponseCalls]_vars

\* A submission refused for a percentage outside its range, all participant
\* fields and the other question being filled in.
C21_Witness ==
  /\ Malformed
  /\ name = "Ann" /\ countryCode = "NL" /\ role = "Claims"
  /\ formError = "Percentage must be between 0 and max"
  /\ \E k \in 1..Len(formQuestions) : formAnswers[k] = Str("2")
  /\ saveResponseCalls = 0

\* ------------------------------------------------------------------- C22

\* The questions of the other surveys, as a set of rows.
QuestionsOfOthers(rows, sid) == {r \in rows : r.surveyId # sid}

\* C22 (as claimed): saving a question list replaces the whole list of that
\* survey.  When saveQuestions(surveyId, qs) has reported success, the stored
\* questions of the survey are the elements of qs in the given order, each
\* with question order equal to its index, no question stored before
\* remains, and the questions of other surveys are unchanged.
C22_WholeSurveyReplace ==
  saving.pc = "saved" =>
    LET stored == getQuestions(saving.surveyId)
        qs == saving.questions
    IN /\ Len(stored) = Len(qs)
       /\ \A k \in 1..Len(stored) :
            /\ stored[k].text = qs[k].text
            /\ stored[k].type = qs[k].type
            /\ stored[k].questionOrder = k - 1
       /\ \A r \in saving.before :
            r.surveyId = saving.surveyId => r \notin survey_questions
       /\ QuestionsOfOthers(survey_questions, saving.surveyId)
            = QuestionsOfOthers(saving.before, saving.surveyId)

\* ------------------------------------------------------------------- C26

\* C26 (as claimed): the rows that saveQuestions sends carry text, type,
\* options, scaleMin, scaleMax, multipleSelect and percentageMax of every
\* question as given, for all values, 0 and false included.
C26_FieldsPreserved ==
  saving.pc \in {"inserting", "saved"} =>
    \A k \in 1..Len(saving.questions) :
      /\ saving.sent[k].text = saving.questions[k].text
      /\ saving.sent[k].type = saving.questions[k].type
      /\ saving.sent[k].options = saving.questions[k].options
      /\ saving.sent[k].scaleMin = saving.questions[k].scaleMin
      /\ saving.sent[k].scaleMax = saving.questions[k].scaleMax
      /\ saving.sent[k].multipleSelect = saving.questions[k].multipleSelect
      /\ saving.sent[k].percentageMax = saving.questions[k].percentageMax

\* ------------------------------------------------------------------- C27

\* C27 (as claimed): when saveQuestions reports an error, the questions
\* stored for the survey before the call are all still stored, unmodified.
C27_StoreUnchangedOnError ==
  saving.pc = "failed" =>
    \A r \in saving.before :
      r.surveyId = saving.surveyId => r \in survey_questions

\* ------------------------------------------------------------------- C24

\* C24 (as claimed): a persisted response is immutable.  In every step, a
\* response row that is stored before and after the step is the same row;
\* the only change a row undergoes is its removal.
C24_ResponseImmutable ==
  [][\A r \in survey_responses' :
       r.id \in Ids(survey_responses) => r \in survey_responses]_vars

\* ------------------------------------------------------------------- C29

\* C29 (as claimed): in the Results view the selected response ids are
\* always among the responses displayed under the active filters, so
\* 'Delete Selected' never deletes a response that is not shown.
C29_SelectionWithinShown ==
  selectedResponses \subseteq Ids(filteredResponses)

\* ------------------------------------------------------------------- C30

\* C30 (as claimed): deleteResponses(ids) is all-or-nothing.  If it has
\* reported failure, none of the listed responses stored at the call has
\* been deleted; if it has returned true, all of them have been deleted.
C30_DeleteAllOrNothing ==
  /\ deleting.pc = "failed" =>
       \A r \in deleting.before :
         r.id \in deleting.ids => r.id \in Ids(survey_responses)
  /\ deleting.pc = "deleted" =>
       \A id \in deleting.ids : id \notin Ids(survey_responses)

====
